---- MODULE Spec2Model ----
(***************************************************************************)
(* SafeBite backend: the brand-scanner response normalizer                 *)
(* (backend/services/brandScanner.js), the food analyzer                   *)
(* (services/aiAnalyzer.js) and the two scan routes (routes/brand.js).     *)
(*                                                                         *)
(* JavaScript values are tagged records.  A string is a sequence of        *)
(* chunks: a run of ordinary characters, a triple backtick, the letters    *)
(* "json", a newline, a stray "{", or the JSON serialization of a value.   *)
(***************************************************************************)
EXTENDS Integers, Sequences, FiniteSets, TLC

(* ------------------------- JavaScript values ------------------------- *)
Undef == [k |-> "undefined"]
Null == [k |-> "null"]
Str(s) == [k |-> "string", s |-> s]
Num(n) == [k |-> "number", n |-> n]
Bool(b) == [k |-> "boolean", b |-> b]
Arr(a) == [k |-> "array", a |-> a]
Obj(o) == [k |-> "object", o |-> o]

EmptyObj == Obj(<<>>)

(* chunks of a string *)
Chr(c) == [t |-> "chr", c |-> c]
Fence == [t |-> "fence"]
JsonTag == [t |-> "json"]
NL == [t |-> "nl"]
LBrace == [t |-> "lbrace"]
Val(j) == [t |-> "value", j |-> j]

Lit(c) == Str(<<Chr(c)>>)

(* JavaScript truthiness: "", 0, false, null and undefined are falsy *)
Truthy(x) ==
  CASE x.k = "undefined" -> FALSE
    [] x.k = "null" -> FALSE
    [] x.k = "string" -> Len(x.s) > 0
    [] x.k = "number" -> x.n # 0
    [] x.k = "boolean" -> x.b
    [] OTHER -> TRUE

(* typeof x === 'object' *)
TypeofObject(x) == x.k \in {"object", "array", "null"}

(* x?.key, and x.key on a value that is not null or undefined *)
Get(x, key) ==
  IF x.k = "object" /\ key \in DOMAIN x.o THEN x.o[key] ELSE Undef

(* x?.[i], zero-based *)
At(x, i) ==
  IF x.k = "array" /\ i < Len(x.a) THEN x.a[i + 1] ELSE Undef

(* a || b *)
Or(a, b) == IF Truthy(a) THEN a ELSE b

(* Object.keys(x).length *)
KeyCount(x) ==
  CASE x.k = "object" -> Cardinality(DOMAIN x.o)
    [] x.k = "array" -> Len(x.a)
    [] OTHER -> 0

(* an object literal restricted to the keys whose value is given *)
Restrict(o, keys) == [key \in (DOMAIN o) \cap keys |-> o[key]]

(* { ...a, ...b } *)
Spread(a, b) ==
  [key \in (DOMAIN a) \cup (DOMAIN b) |-> IF key \in DOMAIN b THEN b[key] ELSE a[key]]

(* --------------------------- string helpers --------------------------- *)
RECURSIVE replaceFence(_, _)
RECURSIVE stripValue(_, _)

(* text.replace(/```(?:json)?/gi, '') when withTag, text.replace(/```/g, '')
   otherwise, on the chunks of a string.  The characters of a serialized
   value are the characters of its strings, so the replacement reaches into
   every string the value holds. *)
replaceFence(s, withTag) ==
  IF s = <<>> THEN <<>>
  ELSE LET h == Head(s)
           r == Tail(s)
       IN  CASE h.t = "fence" ->
                  IF withTag /\ r # <<>> /\ Head(r).t = "json"
                  THEN replaceFence(Tail(r), withTag)
                  ELSE replaceFence(r, withTag)
             [] h.t = "value" -> <<Val(stripValue(h.j, withTag))>> \o replaceFence(r, withTag)
             [] OTHER -> <<h>> \o replaceFence(r, withTag)

stripValue(j, withTag) ==
  CASE j.k = "string" -> Str(replaceFence(j.s, withTag))
    [] j.k = "array" -> Arr([i \in 1..Len(j.a) |-> stripValue(j.a[i], withTag)])
    [] j.k = "object" -> Obj([key \in DOMAIN j.o |-> stripValue(j.o[key], withTag)])
    [] OTHER -> j

RECURSIVE trimStart(_)
trimStart(s) ==
  IF s # <<>> /\ Head(s).t = "nl" THEN trimStart(Tail(s)) ELSE s

RECURSIVE trimEnd(_)
trimEnd(s) ==
  IF s # <<>> /\ s[Len(s)].t = "nl" THEN trimEnd(SubSeq(s, 1, Len(s) - 1)) ELSE s

(* String.prototype.trim *)
trim(s) == trimEnd(trimStart(s))

cleanJsonResponse(text) ==
  IF ~Truthy(text) \/ text.k # "string" THEN text
  ELSE Str(trim(replaceFence(replaceFence(text.s, TRUE), FALSE)))

(* JSON.parse on the chunks of a string: a single serialized value, with
   optional whitespace around it, parses to that value; anything else is a
   SyntaxError. *)
SyntaxError == [k |-> "SyntaxError"]

IsNotNL(c) == c.t # "nl"

JSONparse(s) ==
  LET body == SelectSeq(s, IsNotNL)
  IN  IF Len(body) = 1 /\ body[1].t = "value" THEN body[1].j ELSE SyntaxError

(* s.startsWith('{') || s.startsWith('[') *)
startsWithBrace(s) ==
  s # <<>> /\ (Head(s).t = "lbrace" \/ (Head(s).t = "value" /\ Head(s).j.k \in {"object", "array"}))

(* cleaned.match(/\{[\s\S]*\}$/m): from the first "{" to the last "}" that
   ends a line; the empty sequence stands for no match. *)
OpensBrace(c) == c.t = "lbrace" \/ (c.t = "value" /\ c.j.k = "object")

matchJsonSnippet(s) ==
  LET starts == {i \in 1..Len(s) : OpensBrace(s[i])}
      ends == {i \in 1..Len(s) : /\ s[i].t = "value"
                                 /\ s[i].j.k = "object"
                                 /\ (i = Len(s) \/ s[i + 1].t = "nl")}
  IN  IF starts = {} THEN <<>>
      ELSE LET first == CHOOSE i \in starts : \A m \in starts : i <= m
               after == {i \in ends : i >= first}
           IN  IF after = {} THEN <<>>
               ELSE SubSeq(s, first, CHOOSE i \in after : \A m \in after : m <= i)

(* ------------------- services/brandScanner.js ------------------------ *)
SchemaKeys ==
  {"brandName", "productType", "manufacturer", "keyIngredients", "expiryDate",
   "warnings", "confidenceScore", "localizedAdvice", "promotionalNote"}

ResultKeys == SchemaKeys \cup {"error", "message"}

IsStringArray(x) ==
  x.k = "array" /\ \A i \in 1..Len(x.a) : x.a[i].k = "string"

(* the keys of DrinkAnalysisSchema that reject the value found under them *)
SchemaIssues(x) ==
  LET optString(key) == Get(x, key).k \in {"undefined", "string"}
  IN  {key \in SchemaKeys :
         CASE key \in {"brandName", "productType"} ->
                ~(Get(x, key).k = "string" /\ Len(Get(x, key).s) >= 1)
           [] key = "keyIngredients" ->
                ~(IsStringArray(Get(x, key)) /\ Len(Get(x, key).a) >= 1)
           [] key = "warnings" ->
                ~(Get(x, key).k = "undefined" \/ IsStringArray(Get(x, key)))
           [] key = "confidenceScore" ->
                ~(Get(x, key).k = "number" /\ Get(x, key).n >= 0 /\ Get(x, key).n <= 100)
           [] OTHER -> ~optString(key)}

(* the schema with confidenceScore: z.number(), the range left out *)
safeParseWithoutRange(x) ==
  IF x.k = "object" /\ SchemaIssues(x) \ {"confidenceScore"} = {}
     /\ Get(x, "confidenceScore").k = "number"
  THEN [success |-> TRUE, data |-> Obj(Restrict(x.o, SchemaKeys)), issues |-> {}]
  ELSE [success |-> FALSE, data |-> Undef,
        issues |-> IF x.k = "object" THEN SchemaIssues(x) ELSE {"(root)"}]

(* DrinkAnalysisSchema.safeParse(x): success carries the object stripped
   to the schema's keys; failure carries the issues. *)
DrinkAnalysisSchema(x) ==
  IF x.k = "object" /\ SchemaIssues(x) = {}
  THEN [success |-> TRUE, data |-> Obj(Restrict(x.o, SchemaKeys)), issues |-> {}]
  ELSE [success |-> FALSE, data |-> Undef,
        issues |-> IF x.k = "object" THEN SchemaIssues(x) ELSE {"(root)"}]

FirstCandidate(response) == At(Get(Get(response, "response"), "candidates"), 0)

(* extractModelText without its third path: a first part that is an
   object without text is not serialized on its own *)
extractWithoutPartObject(response) ==
  IF ~Truthy(response) \/ ~TypeofObject(response) THEN Null
  ELSE LET p1 == Get(At(Get(Get(FirstCandidate(response), "content"), "parts"), 0), "text")
           p2 == Get(At(Get(FirstCandidate(response), "content"), 0), "text")
           candidate == FirstCandidate(response)
       IN  IF Truthy(p1) THEN p1
           ELSE IF Truthy(p2) THEN p2
           ELSE IF Truthy(candidate) THEN Str(<<Val(candidate)>>)
           ELSE Null

extractModelText(response) ==
  IF ~Truthy(response) \/ ~TypeofObject(response) THEN Null
  ELSE LET p1 == Get(At(Get(Get(FirstCandidate(response), "content"), "parts"), 0), "text")
           p2 == Get(At(Get(FirstCandidate(response), "content"), 0), "text")
           maybeObj == At(Get(Get(FirstCandidate(response), "content"), "parts"), 0)
           candidate == FirstCandidate(response)
       IN  IF Truthy(p1) THEN p1
           ELSE IF Truthy(p2) THEN p2
           ELSE IF Truthy(maybeObj) /\ TypeofObject(maybeObj) /\ ~Truthy(Get(maybeObj, "text"))
                THEN Str(<<Val(maybeObj)>>)
           ELSE IF Truthy(candidate) THEN Str(<<Val(candidate)>>)
           ELSE Null

(* what an awaited call hands back to the code that awaits it *)
Return(v) == [k |-> "return", v |-> v]
Throw(e) == [k |-> "throw", e |-> e]
Resolve(v) == [k |-> "resolve", v |-> v]
Reject(e) == [k |-> "reject", e |-> e]

(* new Error(msg) *)
Error(msg) == Obj([message |-> msg, stack |-> Lit("Error: at ...")])

Sentinel == Arr(<<Lit("ingredient_unavailable")>>)

(* lines 136-142: promptFeedback first, else a finish reason other than STOP *)
feedbackReason(response) ==
  LET feedback == Get(Get(response, "response"), "promptFeedback")
      finishReason == Get(FirstCandidate(response), "finishReason")
  IN  IF Truthy(feedback)
         /\ (Truthy(Get(feedback, "blockReason")) \/ Truthy(Get(feedback, "safetyRatings")))
      THEN Str(<<Chr("API feedback: "), Val(feedback)>>)
      ELSE IF Truthy(finishReason) /\ finishReason # Lit("STOP")
      THEN Str(<<Chr("Generation stopped: ")>> \o
               (IF finishReason.k = "string" THEN finishReason.s ELSE <<Val(finishReason)>>))
      ELSE Null

(* lines 153-170: the parse of the cleaned text; err is the message of the
   exception the inner catch saw, or null *)
parseCleaned(cleaned) ==
  IF Truthy(cleaned) /\ cleaned.k # "string"
  THEN [parsed |-> Null, err |-> Lit("cleaned.trim is not a function")]
  ELSE IF Truthy(cleaned) /\ startsWithBrace(trim(cleaned.s))
  THEN LET v == JSONparse(cleaned.s)
       IN  IF v = SyntaxError
           THEN [parsed |-> Null, err |-> Lit("Unexpected token in JSON")]
           ELSE [parsed |-> v, err |-> Null]
  ELSE LET jsonMatch == matchJsonSnippet(cleaned.s)
       IN  IF jsonMatch = <<>> THEN [parsed |-> Null, err |-> Null]
           ELSE LET v == JSONparse(jsonMatch)
                IN  IF v = SyntaxError
                    THEN [parsed |-> Null, err |-> Lit("Unexpected token in JSON")]
                    ELSE [parsed |-> v, err |-> Null]

(* lines 186-194: the first part of el.parts that is an object without text *)
firstObjectPart(el) ==
  LET parts == Get(el, "parts")
      hits == IF Truthy(parts) /\ parts.k = "array"
              THEN {i \in 1..Len(parts.a) :
                      /\ TypeofObject(parts.a[i]) /\ parts.a[i] # Null
                      /\ Get(parts.a[i], "text") = Undef}
              ELSE {}
  IN  IF hits = {} THEN Null
      ELSE parts.a[CHOOSE i \in hits : \A m \in hits : i <= m]

(* lines 178-196: the scan of the content array.  The break after a payload
   look-alike leaves the outer loop; the break after a part leaves only the
   inner loop, so later elements are still visited. *)
RECURSIVE scanContent(_, _)
scanContent(els, parsed) ==
  IF els = <<>> THEN parsed
  ELSE LET el == Head(els)
       IN  IF TypeofObject(el) /\ el # Null
           THEN IF \/ Truthy(Get(el, "brandName"))
                   \/ Truthy(Get(el, "productType"))
                   \/ Truthy(Get(el, "keyIngredients"))
                THEN el
                ELSE scanContent(Tail(els),
                       IF firstObjectPart(el) # Null THEN firstObjectPart(el) ELSE parsed)
           ELSE scanContent(Tail(els), parsed)

(* lines 173-198 *)
structuralFallback(response, parsed) ==
  LET candidateContent == Get(FirstCandidate(response), "content")
  IN  IF ~Truthy(parsed) /\ Truthy(candidateContent) /\ candidateContent.k = "array"
      THEN scanContent(candidateContent.a, parsed)
      ELSE parsed

(* lines 200-206 *)
finalFallback(response, parsed) ==
  LET maybeObj == At(Get(Get(FirstCandidate(response), "content"), "parts"), 0)
  IN  IF ~Truthy(parsed) /\ Truthy(maybeObj) /\ TypeofObject(maybeObj) /\ KeyCount(maybeObj) > 0
      THEN maybeObj
      ELSE parsed

(* valid.error.format(), serialized *)
zodErrors(issues) ==
  Val(Obj([key \in issues \cup {"_errors"} |->
             IF key = "_errors" THEN Arr(<<>>) ELSE Obj([_errors |-> Arr(<<Lit("Invalid input")>>)])]))

(* typeof v === 'string' ? v : '' *)
stringOrEmpty(v) == IF v.k = "string" THEN v ELSE Str(<<>>)

(* lines 229-250: the coerced result of the failure path *)
NormalizedFailure(parsed, aiErrorReason) ==
  LET safeParsed == Or(parsed, EmptyObj)
  IN  Obj([error |-> Bool(TRUE),
           message |-> Or(aiErrorReason, Lit("AI parsing/validation failed")),
           brandName |-> stringOrEmpty(Get(safeParsed, "brandName")),
           productType |-> stringOrEmpty(Get(safeParsed, "productType")),
           manufacturer |-> stringOrEmpty(Get(safeParsed, "manufacturer")),
           keyIngredients |->
             IF Get(safeParsed, "keyIngredients").k = "array"
                /\ Len(Get(safeParsed, "keyIngredients").a) > 0
             THEN Get(safeParsed, "keyIngredients") ELSE Sentinel,
           expiryDate |-> stringOrEmpty(Get(safeParsed, "expiryDate")),
           warnings |->
             IF Get(safeParsed, "warnings").k = "array"
             THEN Get(safeParsed, "warnings") ELSE Arr(<<>>),
           confidenceScore |->
             IF Get(safeParsed, "confidenceScore").k = "number"
             THEN Get(safeParsed, "confidenceScore") ELSE Num(0),
           localizedAdvice |-> stringOrEmpty(Get(safeParsed, "localizedAdvice")),
           promotionalNote |-> stringOrEmpty(Get(safeParsed, "promotionalNote"))])

(* lines 222-228 *)
NormalizedSuccess(validated) ==
  Obj(Spread([error |-> Bool(FALSE), message |-> Null], validated.o))

(* aiErrorReason = next || aiErrorReason: a later diagnostic overwrites *)
keepLast(aiErrorReason, next) == Or(next, aiErrorReason)

(* aiErrorReason = aiErrorReason || next *)
keepFirst(aiErrorReason, next) == Or(aiErrorReason, next)

(* lines 145-170: the text is extracted, cleaned and parsed *)
parseText(response) ==
  LET rawTextCandidate == extractModelText(response)
  IN  parseCleaned(IF Truthy(rawTextCandidate) THEN cleanJsonResponse(rawTextCandidate)
                   ELSE Str(<<>>))

(* lines 153-206: the candidate object, from the text or from the structure *)
candidateObject(response) ==
  finalFallback(response, structuralFallback(response, parseText(response).parsed))

(* the normalizer with a short circuit: feedback or an early stop ends in
   the failure result before the text is looked at *)
normalizeBlockedFirst(response) ==
  LET r0 == feedbackReason(response)
      parsed == candidateObject(response)
      valid == IF Truthy(parsed) THEN DrinkAnalysisSchema(parsed)
               ELSE [success |-> FALSE, data |-> Undef, issues |-> {}]
  IN  IF r0 # Null THEN NormalizedFailure(Null, r0)
      ELSE IF valid.success THEN NormalizedSuccess(valid.data)
      ELSE NormalizedFailure(parsed, Null)

(* lines 136-250: everything after the model call returned *)
normalizeResponse(response) ==
  LET r0 == feedbackReason(response)
      r1 == IF ~Truthy(extractModelText(response))
            THEN keepFirst(r0, Lit("No candidate text found in AI response")) ELSE r0
      p == parseText(response)
      r2 == IF p.err # Null
            THEN keepFirst(r1, Str(<<Chr("Malformed JSON returned by AI: ")>> \o p.err.s)) ELSE r1
      parsed == candidateObject(response)
      valid == IF Truthy(parsed) THEN DrinkAnalysisSchema(parsed)
               ELSE [success |-> FALSE, data |-> Undef, issues |-> {}]
      r3 == IF Truthy(parsed) /\ ~valid.success
            THEN keepFirst(r2, Str(<<Chr("Schema validation failed: "), zodErrors(valid.issues)>>))
            ELSE r2
  IN  IF valid.success THEN NormalizedSuccess(valid.data)
      ELSE NormalizedFailure(parsed, r3)

(* lines 251-268: the outer catch.  err.message on a thrown null or
   undefined is itself a TypeError, which leaves the function. *)
outerCatch(err) ==
  IF err.k \in {"undefined", "null"}
  THEN Throw(Error(Lit("Cannot read properties of undefined (reading 'message')")))
  ELSE Return(Obj([error |-> Bool(TRUE),
                   message |-> Or(Get(err, "message"), Lit("AI analysis failed")),
                   details |-> Get(err, "stack"),
                   brandName |-> Str(<<>>),
                   productType |-> Str(<<>>),
                   manufacturer |-> Str(<<>>),
                   keyIngredients |-> Sentinel,
                   expiryDate |-> Str(<<>>),
                   warnings |-> Arr(<<>>),
                   confidenceScore |-> Num(0),
                   localizedAdvice |-> Str(<<>>),
                   promotionalNote |-> Str(<<>>)]))

(* analyzeDrinkWithVertex once fs.readFileSync and model.generateContent
   have had their outcome: fileReadable is whether the read succeeded,
   outcome is how the model call settled. *)
analyzeDrinkWithVertex(fileReadable, outcome) ==
  IF ~fileReadable THEN outerCatch(Error(Lit("ENOENT: no such file or directory")))
  ELSE IF outcome.k = "reject" THEN outerCatch(outcome.e)
  ELSE Return(normalizeResponse(outcome.v))

(* ---------------- services/aiAnalyzer.js (food analyzer) -------------- *)
(* text.replace(/```json/gi, '').replace(/```/g, '').trim() *)
RECURSIVE replaceFenceJson(_)
RECURSIVE stripValueJson(_)
replaceFenceJson(s) ==
  IF s = <<>> THEN <<>>
  ELSE LET h == Head(s)
           r == Tail(s)
       IN  CASE h.t = "fence" /\ r # <<>> /\ Head(r).t = "json" -> replaceFenceJson(Tail(r))
             [] h.t = "value" -> <<Val(stripValueJson(h.j))>> \o replaceFenceJson(r)
             [] OTHER -> <<h>> \o replaceFenceJson(r)

stripValueJson(j) ==
  CASE j.k = "string" -> Str(replaceFenceJson(j.s))
    [] j.k = "array" -> Arr([i \in 1..Len(j.a) |-> stripValueJson(j.a[i])])
    [] j.k = "object" -> Obj([key \in DOMAIN j.o |-> stripValueJson(j.o[key])])
    [] OTHER -> j

foodCleanJsonResponse(text) ==
  Str(trim(replaceFence(replaceFenceJson(text.s), FALSE)))

(* Array.isArray(v) ? v : dflt *)
arrayOr(v, dflt) == IF v.k = "array" THEN v ELSE dflt

(* lines 116-132: safeJson *)
safeJson(parsed) ==
  Obj([risk_level |-> Or(Get(parsed, "risk_level"), Lit("CRITICAL")),
       risk_score |-> Or(Get(parsed, "risk_score"), Num(10)),
       localized_actionable_fixes |->
         arrayOr(Get(parsed, "localized_actionable_fixes"), Arr(<<Lit("No immediate action needed.")>>)),
       health_consumption_advice |->
         arrayOr(Get(parsed, "health_consumption_advice"),
                 Arr(<<Lit("No specific consumption advice available.")>>)),
       localized_visible_ingredients |->
         arrayOr(Get(parsed, "localized_visible_ingredients"), Arr(<<>>)),
       hidden_ingredients |-> arrayOr(Get(parsed, "hidden_ingredients"), Arr(<<>>)),
       allergy_risk_summary |->
         Or(Get(parsed, "allergy_risk_summary"), Lit("Hakuna hatari (No specific allergy risks detected).")),
       health_risk_summary |->
         Or(Get(parsed, "health_risk_summary"), Lit("Hakuna hatari kubwa (No major health risks noted).")),
       expert_take_paragraph |->
         Or(Get(parsed, "expert_take_paragraph"), Lit("Inaonekana nzuri! (Looks good!)")),
       safe_swaps |->
         arrayOr(Get(parsed, "safe_swaps"), Arr(<<Lit("Jaribu mlo mwepesi (Try a lighter alternative next time).")>>))])

(* lines 142-145: the catch of analyzeImageWithVertex *)
foodCatch(err) ==
  IF err.k \in {"undefined", "null"}
  THEN Throw(Error(Lit("Cannot read properties of undefined (reading 'message')")))
  ELSE Return(Obj([error |-> Bool(TRUE),
                   message |-> Or(Get(err, "message"), Lit("AI analysis failed")),
                   details |-> Get(err, "stack")]))

(* lines 103-140: everything after the model call returned *)
foodNormalize(response, localFilePath) ==
  IF Get(response, "response").k \in {"undefined", "null"}
  THEN foodCatch(Error(Lit("Cannot read properties of undefined (reading 'candidates')")))
  ELSE LET raw == Or(Get(At(Get(Get(FirstCandidate(response), "content"), "parts"), 0), "text"),
                     Str(<<Val(EmptyObj)>>))
       IN  IF raw.k # "string" THEN foodCatch(Error(Lit("text.replace is not a function")))
           ELSE LET parsed == JSONparse(foodCleanJsonResponse(raw).s)
                IN  IF parsed = SyntaxError
                    THEN Return(Obj([error |-> Bool(TRUE),
                                     message |-> Lit("AI returned malformed JSON"),
                                     rawResponse |-> raw]))
                    ELSE Return(Obj([status |-> Lit("Scan analyzed"),
                                     scanId |-> Lit("<Date.now()>"),
                                     imageUrl |-> localFilePath,
                                     aiResult |-> safeJson(parsed)]))

analyzeImageWithVertex(fileReadable, outcome, localFilePath) ==
  IF ~fileReadable THEN foodCatch(Error(Lit("ENOENT: no such file or directory")))
  ELSE IF outcome.k = "reject" THEN foodCatch(outcome.e)
  ELSE foodNormalize(outcome.v, localFilePath)

(* ------------------------- routes/brand.js ---------------------------- *)
(* the analyzer's result handed on as it came *)
passThrough(aiResult) == Obj(Restrict(aiResult.o, ResultKeys))

(* lines 65-77: every field of aiResult, defaulted *)
ensureAllFields(aiResult) ==
  Obj([brandName |-> Or(Get(aiResult, "brandName"), Lit("Unknown")),
       productType |-> Or(Get(aiResult, "productType"), Lit("Unknown")),
       manufacturer |-> Or(Get(aiResult, "manufacturer"), Str(<<>>)),
       keyIngredients |-> arrayOr(Get(aiResult, "keyIngredients"), Arr(<<>>)),
       expiryDate |-> Or(Get(aiResult, "expiryDate"), Str(<<>>)),
       warnings |-> arrayOr(Get(aiResult, "warnings"), Arr(<<>>)),
       confidenceScore |->
         IF Get(aiResult, "confidenceScore").k = "number"
         THEN Get(aiResult, "confidenceScore") ELSE Num(0),
       localizedAdvice |-> Or(Get(aiResult, "localizedAdvice"), Str(<<>>)),
       promotionalNote |-> Or(Get(aiResult, "promotionalNote"), Str(<<>>)),
       error |-> Or(Get(aiResult, "error"), Bool(FALSE)),
       message |-> Or(Get(aiResult, "message"), Null)])

(* lines 79-94: the route's own result when the analysis call throws *)
analysisFallback(aiErr) ==
  Obj([brandName |-> Lit("Unknown"),
       productType |-> Lit("Unknown"),
       manufacturer |-> Str(<<>>),
       keyIngredients |-> Arr(<<>>),
       expiryDate |-> Str(<<>>),
       warnings |-> Arr(<<>>),
       confidenceScore |-> Num(0),
       localizedAdvice |-> Str(<<>>),
       promotionalNote |-> Str(<<>>),
       error |-> Bool(TRUE),
       message |-> Get(aiErr, "message")])

(* lines 59-94 *)
brandAiResult(settled) ==
  IF settled.k = "return" THEN ensureAllFields(settled.v) ELSE analysisFallback(settled.e)

(* ------------------------------ inputs -------------------------------- *)
MaxStrLen == 1
MaxArrLen == 1
MaxDeviations == 1
MaxTextLen == 3

RECURSIVE SeqsUpTo(_, _)
SeqsUpTo(S, n) ==
  IF n = 0 THEN {<<>>}
  ELSE LET shorter == SeqsUpTo(S, n - 1)
       IN  shorter \cup {Append(q, x) : q \in shorter, x \in S}

StringVals == {Str(q) : q \in SeqsUpTo({Chr("a"), Fence}, MaxStrLen)}
ArrayVals == {Arr(q) : q \in SeqsUpTo({Lit("a"), Str(<<Fence>>), Num(7)}, MaxArrLen)}
NumberVals == {Num(-1), Num(0), Num(85), Num(100), Num(101)}

(* what a model may put under a key; undefined stands for leaving it out *)
FieldChoices(key) ==
  CASE key \in {"keyIngredients", "warnings"} -> ArrayVals \cup {Undef, Lit("a")}
    [] key = "confidenceScore" -> NumberVals \cup {Undef, Lit("85")}
    [] OTHER -> StringVals \cup {Undef, Null, Num(85)}

(* scenario A's payload, and one that fills every field *)
BaseMin ==
  [brandName |-> Lit("Fanta"), productType |-> Lit("Soda"),
   keyIngredients |-> Arr(<<Lit("sugar"), Lit("water")>>), confidenceScore |-> Num(85)]

BaseFull ==
  [brandName |-> Lit("Fanta"), productType |-> Lit("Soda"), manufacturer |-> Lit("Coca-Cola"),
   keyIngredients |-> Arr(<<Lit("sugar"), Lit("water")>>), expiryDate |-> Lit("2026-01-01"),
   warnings |-> Arr(<<Lit("high sugar")>>), confidenceScore |-> Num(85),
   localizedAdvice |-> Lit("drink cold"), promotionalNote |-> Lit("new")]

RECURSIVE ChangesUpTo(_)
ChangesUpTo(n) ==
  IF n = 0 THEN {<<>>}
  ELSE LET fewer == ChangesUpTo(n - 1)
       IN  fewer \cup
           UNION {UNION {{[key2 \in (DOMAIN ch) \cup {key} |-> IF key2 = key THEN v ELSE ch[key2]] :
                            v \in FieldChoices(key)} :
                         key \in SchemaKeys \ DOMAIN ch} : ch \in fewer}

Deviate(base, ch) ==
  Obj([key \in {key2 \in (DOMAIN base) \cup (DOMAIN ch) :
                  IF key2 \in DOMAIN ch THEN ch[key2] # Undef ELSE TRUE} |->
         IF key \in DOMAIN ch THEN ch[key] ELSE base[key]])

Payloads == {Deviate(base, ch) : base \in {BaseMin, BaseFull}, ch \in ChangesUpTo(MaxDeviations)}

FoodPayload == Obj([risk_level |-> Lit("SAFE"), risk_score |-> Num(2), safe_swaps |-> Arr(<<Lit("Nduma")>>)])

CorePayloads ==
  {Obj(BaseMin), Deviate(BaseMin, [confidenceScore |-> Num(101)]), FoodPayload, EmptyObj, Arr(<<Lit("a")>>)}

Prose == Chr("I think this is a Coke bottle but I'm not sure.")

(* the texts a model answers with: a payload fenced as in scenario A or
   after a sentence, and every short text over the chunks *)
KeyTexts(p) ==
  {Str(<<Fence, JsonTag, NL, Val(p), NL, Fence>>), Str(<<Prose, NL, Val(p)>>)}

TextChunks ==
  {Fence, JsonTag, NL, Prose, LBrace, Val(Obj(BaseMin)),
   Val(Deviate(BaseMin, [confidenceScore |-> Num(101)]))}

Texts ==
  UNION {KeyTexts(p) : p \in Payloads}
  \cup {Str(q) : q \in SeqsUpTo(TextChunks, MaxTextLen)}
  \cup {Str(<<Val(p)>>) : p \in CorePayloads}

TextPart(text) == Obj([text |-> text])

(* texts that yield no candidate: prose, and a brace that does not parse *)
UnparsedTexts == {Str(<<Prose>>), Str(<<LBrace, Prose>>)}

(* what follows the text element in a content array: payload look-alikes
   and elements whose parts hold objects *)
StructuredRests ==
  {<<p>> : p \in CorePayloads}
  \cup {<<Obj([parts |-> Arr(ps)])>> :
          ps \in {<<EmptyObj>>, <<FoodPayload>>, <<TextPart(Lit("x")), FoodPayload>>,
                  <<TextPart(Lit("x"))>>}}
  \cup {<<Obj([parts |-> Arr(<<FoodPayload>>)]), Obj(BaseMin)>>,
        <<Obj(BaseMin), Deviate(BaseMin, [confidenceScore |-> Num(101)])>>,
        <<Obj([parts |-> Arr(<<EmptyObj>>)]), Obj([parts |-> Arr(<<FoodPayload>>)])>>}

Contents ==
  {Obj([parts |-> Arr(<<TextPart(text)>>)]) : text \in Texts}
  \cup {Arr(<<TextPart(text)>>) : text \in UNION {KeyTexts(p) : p \in CorePayloads} \cup {Str(<<Prose>>)}}
  \cup {Obj([parts |-> Arr(<<p>>)]) : p \in Payloads}
  \cup {Arr(<<p>>) : p \in Payloads}
  \cup {Arr(<<Obj([parts |-> Arr(<<TextPart(Str(<<Prose>>)), p>>)]), q>>) :
          p \in CorePayloads, q \in CorePayloads \cup {TextPart(Str(<<Prose>>))}}
  \cup {Obj([parts |-> Arr(<<>>)]), Obj([parts |-> Arr(<<TextPart(Num(5))>>)]), Arr(<<>>), EmptyObj}
  \cup {Arr(<<TextPart(text)>> \o rest) : text \in UnparsedTexts, rest \in StructuredRests}

CoreContents ==
  {Obj([parts |-> Arr(<<TextPart(text)>>)]) :
     text \in UNION {KeyTexts(p) : p \in CorePayloads}
               \cup {Str(<<Prose>>), Str(<<>>), Str(<<LBrace, Prose>>)}}
  \cup {Obj([parts |-> Arr(<<p>>)]) : p \in CorePayloads}
  \cup {Undef}

Feedbacks ==
  {Undef, EmptyObj, Obj([blockReason |-> Lit("SAFETY")]),
   Obj([safetyRatings |-> Arr(<<Lit("HARM_CATEGORY_DANGEROUS_CONTENT")>>)])}

FinishReasons == {Undef, Lit("STOP"), Lit("MAX_TOKENS")}

(* an object literal without the keys whose value is undefined *)
Defined(o) == [key \in {key2 \in DOMAIN o : o[key2] # Undef} |-> o[key]]

GenerateContentResult(feedback, finishReason, content) ==
  Obj([response |->
         Obj(Defined([promptFeedback |-> feedback,
                      candidates |-> Arr(<<Obj(Defined([finishReason |-> finishReason,
                                                        content |-> content]))>>)]))])

Responses ==
  {GenerateContentResult(Undef, Lit("STOP"), c) : c \in Contents}
  \cup {GenerateContentResult(fb, fr, c) : fb \in Feedbacks, fr \in FinishReasons, c \in CoreContents}
  \cup {Obj([response |-> Obj(Defined([promptFeedback |-> fb, candidates |-> Arr(<<>>)]))]) :
          fb \in Feedbacks}
  \cup {Obj([response |-> Obj(Defined([promptFeedback |-> fb]))]) : fb \in Feedbacks}
  \cup {Null, Undef, EmptyObj}

(* how model.generateContent settles: a response, or a rejection with an
   Error, an Error without message, or no reason at all *)
ModelOutcomes ==
  {Resolve(resp) : resp \in Responses}
  \cup {Reject(Error(Lit("503 Service Unavailable"))), Reject(Error(Str(<<>>))), Reject(Undef)}

(* --------------------------- the server ------------------------------- *)
VARIABLES
  pc,        \* where each request's handler stands
  req,       \* the request: route, userId, whether an image came with it, name
  disk,      \* the temporary files present under uploads/
  bucket,    \* the objects uploaded to the storage bucket
  users,     \* the ids of the user documents
  scans,     \* the scan document each request created, if any
  modelOut,  \* how the request's model call settled
  analysis,  \* what the analyzer handed back to the route
  aiResult,  \* the route's aiResult
  http,      \* the HTTP response sent
  steps      \* what each handler has done so far, in the order of its statements

(* two scan requests served at the same time, seen at the level of the
   files, objects and documents they touch *)
VARIABLES
  clock,          \* what Date.now() returns
  stage,          \* where the handler of each of the two requests stands
  incoming,       \* the two requests: route, userId, originalname
  localFilePath,  \* req.file.path of each request
  uploadsDir,     \* uploads/: for each file in it, whose image it holds
  fileName,       \* the bucket destination of each request
  storage,        \* the bucket: for each object, whose image it holds and who wrote it
  docs,           \* the scan document of each request
  image,          \* whose image the analyzer of each request read
  answer          \* the status each request was answered with

(* routes/brand.js is not the only holder of state: the legacy handlers of
   firebase.js keep a map in memory *)
VARIABLES
  profiles,       \* let profiles = {}
  saved,          \* for each userId a profile was saved under, the last one
  legacy          \* the last legacy call, the map before it, and its response

scanVars == <<pc, req, disk, bucket, users, scans, modelOut, analysis, aiResult, http, steps>>

concVars ==
  <<clock, stage, incoming, localFilePath, uploadsDir, fileName, storage, docs, image, answer>>

legacyVars == <<profiles, saved, legacy>>

vars == <<scanVars, concVars, legacyVars>>

Reqs == {1}

None == [k |-> "none"]

UserIds == {Undef, Str(<<>>), Lit("u1"), Lit("u2")}

(* req.body.name of POST /api/profile: left out, null, empty, blank, a
   name, a name with blanks around it, and JSON values that are not strings *)
Names ==
  {Undef, Null, Str(<<>>), Str(<<NL>>), Lit("Nick"), Str(<<NL, Chr("Nick"), NL>>),
   Num(0), Num(5), Bool(TRUE), Arr(<<Lit("Nick")>>)}

(* multer's file name for the request, under uploads/ *)
stagedPath(r) == Str(<<Chr("uploads/"), Chr(ToString(r)), Chr(".jpg")>>)

(* scans/<userId>/<timestamp>_<originalFilename> *)
destination(r) ==
  Str(<<Chr("scans/")>> \o req[r].userId.s \o <<Chr("/"), Chr(ToString(r)), Chr("_label.jpg")>>)

imageUrl(r) == Str(<<Chr("https://storage.googleapis.com/"), Chr("<bucket>/")>> \o destination(r).s)

scanId(r) == Lit(ToString(r))

(* docRef.id of the user document POST /api/profile adds *)
profileId(r) == Str(<<Chr("profile"), Chr(ToString(r))>>)

(* ------------------- two requests at the same time -------------------- *)
Pair == {1, 2}

(* Date.now() takes the values 1..MaxClock *)
MaxClock == 2

Unset == [k |-> "none"]

(* the image request a carries *)
ImageOf(a) == [of |-> a]

(* path.extname(file.originalname) *)
extname(originalname) == IF originalname = "label.jpg" THEN ".jpg" ELSE ".png"

(* brand.js lines 17-20: uploads/ + `${Date.now()}${path.extname(file.originalname)}` *)
uniqueName(ms, originalname) == [dir |-> "uploads/", ms |-> ms, ext |-> extname(originalname)]

(* brand.js line 38: `scans/${userId}/${Date.now()}_${req.file.originalname}` *)
scanFileName(userId, ms, originalname) ==
  [dir |-> "scans/", userId |-> userId, ms |-> ms, originalname |-> originalname]

(* the users that have a document *)
Registered == {"u1"}

OriginalNames == {"label.jpg", "can.png"}

(* every path multer can stage a file under, every destination in the bucket *)
StagedPaths == {uniqueName(ms, n) : ms \in 1..MaxClock, n \in OriginalNames}

Destinations ==
  {scanFileName(u, ms, n) : u \in {"u1", "u2"}, ms \in 1..MaxClock, n \in OriginalNames}

InitConcurrent ==
  /\ clock = 1
  /\ stage = [a \in Pair |-> "idle"]
  /\ incoming = [a \in Pair |-> Unset]
  /\ localFilePath = [a \in Pair |-> Unset]
  /\ uploadsDir = [path \in StagedPaths |-> Unset]
  /\ fileName = [a \in Pair |-> Unset]
  /\ storage = [dest \in Destinations |-> Unset]
  /\ docs = [a \in Pair |-> Unset]
  /\ image = [a \in Pair |-> Unset]
  /\ answer = [a \in Pair |-> 0]

(* ---------------- firebase.js: the legacy profile map ----------------- *)
(* Object.prototype, which a map made with {} inherits from *)
ObjectPrototype == [k |-> "Object.prototype"]

(* an object's inherited members, e.g. profiles.constructor *)
BuiltIn == [k |-> "function"]

InheritedKeys == {"constructor", "toString", "hasOwnProperty"}

(* a list of strings as req.body carries it *)
List(q) == [list |-> q]

(* the userIds the legacy handlers are called with; "" is the empty string *)
LegacyIds == {"", "u1", "u2", "constructor", "__proto__", "allergies"}

(* profiles[userId], read: an own entry, else what the prototype chain
   gives, else undefined *)
Lookup(map, userId) ==
  IF userId \in DOMAIN map.own THEN map.own[userId]
  ELSE IF userId = "__proto__" THEN map.proto
  ELSE IF map.proto # ObjectPrototype /\ userId \in {"allergies", "preferences"}
  THEN map.proto[userId]
  ELSE IF userId \in InheritedKeys THEN BuiltIn
  ELSE Unset

(* profiles[userId] = profile: an own entry, except for __proto__, whose
   assignment replaces the prototype of the map *)
Assign(map, userId, profile) ==
  IF userId = "__proto__" THEN [map EXCEPT !.proto = profile]
  ELSE [map EXCEPT !.own = (userId :> profile) @@ @]

InitLegacy ==
  /\ profiles = [own |-> [id \in {} |-> Unset], proto |-> ObjectPrototype]
  /\ saved = [id \in {} |-> Unset]
  /\ legacy = Unset

Init ==
  /\ pc = [r \in Reqs |-> "idle"]
  /\ req = [r \in Reqs |-> [route |-> "none", userId |-> Undef, file |-> FALSE, name |-> Undef]]
  /\ disk = {}
  /\ bucket = {}
  /\ users = {Lit("u1")}
  /\ scans = [r \in Reqs |-> None]
  /\ modelOut = [r \in Reqs |-> None]
  /\ analysis = [r \in Reqs |-> None]
  /\ aiResult = [r \in Reqs |-> None]
  /\ http = [r \in Reqs |-> None]
  /\ steps = [r \in Reqs |-> <<>>]
  /\ InitConcurrent
  /\ InitLegacy

(* the statements an action has run, appended in the order of the code:
   a call that is awaited ("upload", "add", "getUser", "model", "update",
   "addUser"), how it settled ("uploaded", "added", ..., "... failed"),
   the file read, the analyzer's result, the unlink and the response *)
Did(r, what) == steps' = [steps EXCEPT ![r] = @ \o what]

Respond(r, status, body) ==
  /\ http' = [http EXCEPT ![r] = [k |-> "sent", status |-> status, body |-> body]]
  /\ pc' = [pc EXCEPT ![r] = "done"]

(* if (localFilePath && fs.existsSync(localFilePath)) fs.unlinkSync(localFilePath) *)
unlinkIfExists(r) == IF stagedPath(r) \in disk THEN <<"unlink">> ELSE <<>>

(* upload.single('image') stages the image, if any, before the scan
   handlers run; express.json() hands POST /api/profile its body *)
Receive(r) ==
  /\ pc[r] = "idle"
  /\ UNCHANGED <<concVars, legacyVars>>
  /\ \/ \E route \in {"brand", "scan"}, userId \in UserIds, file \in BOOLEAN :
          /\ req' = [req EXCEPT ![r] = [route |-> route, userId |-> userId, file |-> file,
                                        name |-> Undef]]
          /\ disk' = IF file THEN disk \cup {stagedPath(r)} ELSE disk
     \/ \E name \in Names :
          /\ req' = [req EXCEPT ![r] = [route |-> "profile", userId |-> Undef, file |-> FALSE,
                                        name |-> name]]
          /\ UNCHANGED disk
  /\ pc' = [pc EXCEPT ![r] = "received"]
  /\ UNCHANGED <<bucket, users, scans, modelOut, analysis, aiResult, http, steps>>

(* lines 28-44 and 159-172: the checks, then bucket.upload is awaited *)
Validate(r) ==
  /\ pc[r] = "received"
  /\ UNCHANGED <<concVars, legacyVars>>
  /\ req[r].route \in {"brand", "scan"}
  /\ IF ~Truthy(req[r].userId)
     THEN /\ Respond(r, 400, Obj([error |-> Bool(TRUE), message |-> Lit("User ID is required")]))
          /\ Did(r, <<"respond">>)
     ELSE IF ~req[r].file
     THEN /\ Respond(r, 400, Obj([error |-> Bool(TRUE), message |-> Lit("No image uploaded")]))
          /\ Did(r, <<"respond">>)
     ELSE /\ pc' = [pc EXCEPT ![r] = "upload"]
          /\ Did(r, <<"upload">>)
          /\ UNCHANGED http
  /\ UNCHANGED <<req, disk, bucket, users, scans, modelOut, analysis, aiResult>>

(* lines 119-128 and 222-231: the handler's catch, after the statements
   done ran in the try block *)
Fail500(r, done, err) ==
  /\ disk' = disk \ {stagedPath(r)}
  /\ Did(r, done \o unlinkIfExists(r) \o <<"respond">>)
  /\ Respond(r, 500, Obj([error |-> Bool(TRUE), message |-> Get(err, "message"),
                          stack |-> Get(err, "stack"), details |-> err]))

(* lines 41-56 and 169-184: the upload settles, then the scan document is added *)
Upload(r) ==
  /\ pc[r] = "upload"
  /\ UNCHANGED <<concVars, legacyVars>>
  /\ \/ /\ stagedPath(r) \in disk
        /\ bucket' = bucket \cup {destination(r)}
        /\ pc' = [pc EXCEPT ![r] = "add"]
        /\ Did(r, <<"uploaded", "add">>)
        /\ UNCHANGED <<disk, http>>
     \/ /\ Fail500(r, <<"upload failed">>, Error(Lit("upload failed")))
        /\ UNCHANGED bucket
  /\ UNCHANGED <<req, users, scans, modelOut, analysis, aiResult>>

PendingScan(r) ==
  Obj([imageUrl |-> imageUrl(r), createdAt |-> Lit("<now>"), status |-> Lit("pending"),
       result |-> Null])

(* brand.js lines 48-62: the document is added; analyzeDrinkWithVertex runs
   up to its model call, or ends in its catch when the file cannot be read *)
BrandAdd(r) ==
  /\ pc[r] = "add"
  /\ UNCHANGED <<concVars, legacyVars>>
  /\ req[r].route = "brand"
  /\ \/ /\ scans' = [scans EXCEPT ![r] = PendingScan(r)]
        /\ \/ /\ stagedPath(r) \in disk
              /\ pc' = [pc EXCEPT ![r] = "model"]
              /\ Did(r, <<"added", "read", "model">>)
              /\ UNCHANGED analysis
           \/ /\ analysis' = [analysis EXCEPT ![r] = analyzeDrinkWithVertex(FALSE, None)]
              /\ pc' = [pc EXCEPT ![r] = "analyzed"]
              /\ Did(r, <<"added", "read", "normalized">>)
        /\ UNCHANGED <<disk, http>>
     \/ /\ Fail500(r, <<"add failed">>, Error(Lit("firestore add failed")))
        /\ UNCHANGED <<scans, analysis>>
  /\ UNCHANGED <<req, bucket, users, modelOut, aiResult>>

(* brandScanner.js lines 111-269: the model call settles and the analyzer finishes *)
BrandModelSettles(r) ==
  /\ pc[r] = "model"
  /\ UNCHANGED <<concVars, legacyVars>>
  /\ req[r].route = "brand"
  /\ \E outcome \in ModelOutcomes :
       /\ modelOut' = [modelOut EXCEPT ![r] = outcome]
       /\ analysis' = [analysis EXCEPT ![r] = analyzeDrinkWithVertex(TRUE, outcome)]
  /\ pc' = [pc EXCEPT ![r] = "analyzed"]
  /\ Did(r, <<"normalized">>)
  /\ UNCHANGED <<req, disk, bucket, users, scans, aiResult, http>>

(* brand.js lines 59-103: aiResult is built and the document update is awaited *)
BrandResult(r) ==
  /\ pc[r] = "analyzed"
  /\ UNCHANGED <<concVars, legacyVars>>
  /\ req[r].route = "brand"
  /\ aiResult' = [aiResult EXCEPT ![r] = brandAiResult(analysis[r])]
  /\ pc' = [pc EXCEPT ![r] = "update"]
  /\ Did(r, <<"update">>)
  /\ UNCHANGED <<req, disk, bucket, users, scans, modelOut, analysis, http>>

(* the response sent first, the temporary file removed after it *)
respondThenCleanup(r, settled) == <<settled, "respond">> \o unlinkIfExists(r)

(* brand.js lines 96-117 in the order of the statements: the update has
   settled, the temporary file is removed, the response is sent *)
cleanupThenRespond(r, settled) == <<settled>> \o unlinkIfExists(r) \o <<"respond">>

(* brand.js lines 96-117: the update settles (a failure is logged and
   swallowed), the temporary file is removed, the response is sent *)
BrandUpdate(r) ==
  /\ pc[r] = "update"
  /\ UNCHANGED <<concVars, legacyVars>>
  /\ req[r].route = "brand"
  /\ \/ /\ scans' = [scans EXCEPT ![r] =
                       Obj(Spread(scans[r].o,
                                  [status |-> IF Truthy(Get(aiResult[r], "error"))
                                              THEN Lit("failed") ELSE Lit("completed"),
                                   result |-> aiResult[r]]))]
        /\ Did(r, cleanupThenRespond(r, "updated"))
     \/ /\ UNCHANGED scans
        /\ Did(r, cleanupThenRespond(r, "update failed"))
  /\ disk' = disk \ {stagedPath(r)}
  /\ Respond(r, 200,
             Obj([status |-> IF Truthy(Get(aiResult[r], "error"))
                             THEN Lit("AI analysis failed") ELSE Lit("Scan analyzed"),
                  scanId |-> scanId(r),
                  imageUrl |-> imageUrl(r),
                  aiResult |-> aiResult[r]]))
  /\ UNCHANGED <<req, bucket, users, modelOut, analysis, aiResult>>

(* brand.js lines 176-184: /api/scan adds the document, then reads the user *)
ScanAdd(r) ==
  /\ pc[r] = "add"
  /\ UNCHANGED <<concVars, legacyVars>>
  /\ req[r].route = "scan"
  /\ \/ /\ scans' = [scans EXCEPT ![r] = PendingScan(r)]
        /\ pc' = [pc EXCEPT ![r] = "getUser"]
        /\ Did(r, <<"added", "getUser">>)
        /\ UNCHANGED <<disk, http>>
     \/ /\ Fail500(r, <<"add failed">>, Error(Lit("firestore add failed")))
        /\ UNCHANGED scans
  /\ UNCHANGED <<req, bucket, users, modelOut, analysis, aiResult>>

(* brand.js lines 187-201: the user document is read; analyzeImageWithVertex
   runs up to its model call *)
ScanGetUser(r) ==
  /\ pc[r] = "getUser"
  /\ UNCHANGED <<concVars, legacyVars>>
  /\ req[r].route = "scan"
  /\ \/ /\ req[r].userId \notin users
        /\ disk' = disk \ {stagedPath(r)}
        /\ Respond(r, 404, Obj([error |-> Bool(TRUE), message |-> Lit("User profile not found")]))
        /\ Did(r, <<"gotUser", "unlink", "respond">>)
        /\ UNCHANGED analysis
     \/ /\ req[r].userId \in users
        /\ \/ /\ stagedPath(r) \in disk
              /\ pc' = [pc EXCEPT ![r] = "model"]
              /\ Did(r, <<"gotUser", "read", "model">>)
              /\ UNCHANGED analysis
           \/ /\ analysis' = [analysis EXCEPT ![r] =
                                analyzeImageWithVertex(FALSE, None, stagedPath(r))]
              /\ pc' = [pc EXCEPT ![r] = "analyzed"]
              /\ Did(r, <<"gotUser", "read", "normalized">>)
        /\ UNCHANGED <<disk, http>>
     \/ /\ Fail500(r, <<"getUser failed">>, Error(Lit("firestore get failed")))
        /\ UNCHANGED analysis
  /\ UNCHANGED <<req, bucket, users, scans, modelOut, aiResult>>

(* aiAnalyzer.js lines 85-146: the model call settles and the analyzer finishes *)
ScanModelSettles(r) ==
  /\ pc[r] = "model"
  /\ UNCHANGED <<concVars, legacyVars>>
  /\ req[r].route = "scan"
  /\ \E outcome \in ModelOutcomes :
       /\ modelOut' = [modelOut EXCEPT ![r] = outcome]
       /\ analysis' = [analysis EXCEPT ![r] = analyzeImageWithVertex(TRUE, outcome, stagedPath(r))]
  /\ pc' = [pc EXCEPT ![r] = "analyzed"]
  /\ Did(r, <<"normalized">>)
  /\ UNCHANGED <<req, disk, bucket, users, scans, aiResult, http>>

(* brand.js lines 201-209: aiResult is what the analyzer returned; a throw
   goes to the handler's catch *)
ScanResult(r) ==
  /\ pc[r] = "analyzed"
  /\ UNCHANGED <<concVars, legacyVars>>
  /\ req[r].route = "scan"
  /\ IF analysis[r].k = "return"
     THEN /\ aiResult' = [aiResult EXCEPT ![r] = analysis[r].v]
          /\ pc' = [pc EXCEPT ![r] = "update"]
          /\ Did(r, <<"update">>)
          /\ UNCHANGED <<disk, http>>
     ELSE /\ Fail500(r, <<>>, analysis[r].e)
          /\ UNCHANGED aiResult
  /\ UNCHANGED <<req, bucket, users, scans, modelOut, analysis>>

(* brand.js lines 204-231: the update settles; the file is removed and the
   response sent, or the failure goes to the handler's catch *)
ScanUpdate(r) ==
  /\ pc[r] = "update"
  /\ UNCHANGED <<concVars, legacyVars>>
  /\ req[r].route = "scan"
  /\ \/ /\ scans' = [scans EXCEPT ![r] =
                       Obj(Spread(scans[r].o,
                                  [status |-> Lit("completed"), result |-> aiResult[r]]))]
        /\ disk' = disk \ {stagedPath(r)}
        /\ Did(r, <<"updated", "unlink", "respond">>)
        /\ Respond(r, 200, Obj([status |-> Lit("Scan analyzed"), scanId |-> scanId(r),
                                imageUrl |-> imageUrl(r), aiResult |-> aiResult[r]]))
     \/ /\ Fail500(r, <<"update failed">>, Error(Lit("firestore update failed")))
        /\ UNCHANGED scans
  /\ UNCHANGED <<req, bucket, users, modelOut, analysis, aiResult>>

(* an exception that leaves an async handler: the promise the handler
   returned rejects.  The framework either ignores the rejection, and the
   request is never answered, or hands it to its default error handler,
   which answers 500 with an HTML page. *)
Unhandled(r, err) ==
  /\ \/ /\ pc' = [pc EXCEPT ![r] = "unanswered"]
        /\ Did(r, <<"throw">>)
        /\ UNCHANGED http
     \/ /\ Respond(r, 500, Str(<<Chr("<!DOCTYPE html><pre>")>> \o Get(err, "message").s \o <<Chr("</pre>")>>))
        /\ Did(r, <<"throw", "respond">>)

(* profile.js lines 18-30: the body is destructured and name is checked,
   outside the try block *)
ProfileValidate(r) ==
  /\ pc[r] = "received"
  /\ UNCHANGED <<concVars, legacyVars>>
  /\ req[r].route = "profile"
  /\ IF ~Truthy(req[r].name)
     THEN /\ Respond(r, 400, Obj([error |-> Lit("Name is required")]))
          /\ Did(r, <<"respond">>)
     ELSE IF req[r].name.k # "string"
     THEN Unhandled(r, Error(Lit("name.trim is not a function")))
     ELSE IF trim(req[r].name.s) = <<>>
     THEN /\ Respond(r, 400, Obj([error |-> Lit("Name is required")]))
          /\ Did(r, <<"respond">>)
     ELSE /\ pc' = [pc EXCEPT ![r] = "addUser"]
          /\ Did(r, <<"addUser">>)
          /\ UNCHANGED http
  /\ UNCHANGED <<req, disk, bucket, users, scans, modelOut, analysis, aiResult>>

(* profile.js lines 32-53: the user document is added and its id returned,
   or the failure is answered with 500 *)
ProfileAdd(r) ==
  /\ pc[r] = "addUser"
  /\ UNCHANGED <<concVars, legacyVars>>
  /\ req[r].route = "profile"
  /\ \/ /\ users' = users \cup {profileId(r)}
        /\ Respond(r, 200, Obj([status |-> Lit("Profile saved"), profileId |-> profileId(r),
                                name |-> req[r].name]))
        /\ Did(r, <<"added", "respond">>)
     \/ /\ Respond(r, 500, Obj([error |-> Lit("Error saving profile")]))
        /\ Did(r, <<"add failed", "respond">>)
        /\ UNCHANGED users
  /\ UNCHANGED <<req, disk, bucket, scans, modelOut, analysis, aiResult>>

Next ==
  \E r \in Reqs :
    \/ Receive(r)
    \/ Validate(r)
    \/ Upload(r)
    \/ BrandAdd(r)
    \/ BrandModelSettles(r)
    \/ BrandResult(r)
    \/ BrandUpdate(r)
    \/ ScanAdd(r)
    \/ ScanGetUser(r)
    \/ ScanModelSettles(r)
    \/ ScanResult(r)
    \/ ScanUpdate(r)
    \/ ProfileValidate(r)
    \/ ProfileAdd(r)

Spec == Init /\ [][Next]_vars

(* every external call settles and every handler step that can run does *)
FairSpec == Spec /\ WF_vars(Next)

(* ------------------ firebase.js: the legacy handlers ------------------ *)
(* firebase.js lines 19-32 *)
saveProfile ==
  \E userId \in {Unset} \cup {[id |-> u] : u \in LegacyIds},
     allergies \in {Unset, List(<<"nuts">>)},
     preferences \in {Unset, List(<<"vegan">>)} :
    IF userId = Unset \/ userId.id = ""
    THEN /\ legacy' = [op |-> "saveProfile", userId |-> userId, allergies |-> allergies,
                       preferences |-> preferences, before |-> profiles, status |-> 400,
                       body |-> [error |-> "userId is required"]]
         /\ UNCHANGED <<profiles, saved>>
         /\ UNCHANGED <<scanVars, concVars>>
    ELSE LET profile == [allergies |-> IF allergies = Unset THEN List(<<>>) ELSE allergies,
                         preferences |-> IF preferences = Unset THEN List(<<>>) ELSE preferences]
         IN  /\ profiles' = Assign(profiles, userId.id, profile)
             /\ saved' = (userId.id :> profile) @@ saved
             /\ legacy' = [op |-> "saveProfile", userId |-> userId, allergies |-> allergies,
                           preferences |-> preferences, before |-> profiles, status |-> 200,
                           body |-> [message |-> "Profile saved successfully",
                                     profile |-> Lookup(profiles', userId.id)]]
             /\ UNCHANGED <<scanVars, concVars>>

(* firebase.js lines 34-44; req.params.userId is a non-empty string *)
getProfile ==
  \E u \in LegacyIds \ {""} :
    LET profile == Lookup(profiles, u)
    IN  /\ legacy' = [op |-> "getProfile", userId |-> [id |-> u], allergies |-> Unset,
                      preferences |-> Unset, before |-> profiles,
                      status |-> IF profile = Unset THEN 404 ELSE 200,
                      body |-> IF profile = Unset
                               THEN [error |-> "No profile found for this user"]
                               ELSE profile]
        /\ UNCHANGED <<profiles, saved>>
        /\ UNCHANGED <<scanVars, concVars>>

LegacyNext == saveProfile \/ getProfile

LegacySpec == Init /\ [][LegacyNext]_vars

(* -------------- the scan routes under two requests at once ------------ *)
exists(path) == uploadsDir[path] # Unset

(* time passes between any two steps, or does not *)
Tick ==
  /\ clock < MaxClock
  /\ clock' = clock + 1
  /\ UNCHANGED <<stage, incoming, localFilePath, uploadsDir, fileName, storage, docs, image,
                 answer>>
  /\ UNCHANGED <<scanVars, legacyVars>>

(* brand.js lines 11-25 (143-157): multer names the file after Date.now()
   and writes the image under that name.  A file of the same name is
   written over; with the other write still open the bytes of either
   request may end up in it. *)
Stage(a) ==
  /\ stage[a] = "idle"
  /\ \E route \in {"brand", "scan"}, userId \in {"u1", "u2"}, originalname \in OriginalNames :
       LET path == uniqueName(clock, originalname)
       IN  /\ incoming' = [incoming EXCEPT ![a] = [route |-> route, userId |-> userId,
                                                    originalname |-> originalname]]
           /\ localFilePath' = [localFilePath EXCEPT ![a] = path]
           /\ \E bytes \in {ImageOf(a)} \cup ({uploadsDir[path]} \ {Unset}) :
                uploadsDir' = [uploadsDir EXCEPT ![path] = bytes]
  /\ stage' = [stage EXCEPT ![a] = "staged"]
  /\ UNCHANGED <<clock, fileName, storage, docs, image, answer>>
  /\ UNCHANGED <<scanVars, legacyVars>>

(* brand.js lines 28-44 (159-172): the checks pass, the destination is
   named after Date.now(), bucket.upload is awaited *)
Begin(a) ==
  /\ stage[a] = "staged"
  /\ fileName' = [fileName EXCEPT ![a] =
                    scanFileName(incoming[a].userId, clock, incoming[a].originalname)]
  /\ stage' = [stage EXCEPT ![a] = "upload"]
  /\ UNCHANGED <<clock, incoming, localFilePath, uploadsDir, storage, docs, image, answer>>
  /\ UNCHANGED <<scanVars, legacyVars>>

(* brand.js lines 119-128 (222-231): the handler's catch *)
Catch500(a) ==
  /\ uploadsDir' = [uploadsDir EXCEPT ![localFilePath[a]] = Unset]
  /\ answer' = [answer EXCEPT ![a] = 500]
  /\ stage' = [stage EXCEPT ![a] = "done"]

(* brand.js lines 41-56 (169-184): the upload reads the staged file and
   writes the object; the scan document is added *)
Uploaded(a) ==
  /\ stage[a] = "upload"
  /\ IF exists(localFilePath[a])
     THEN /\ storage' = [storage EXCEPT ![fileName[a]] =
                           [holds |-> uploadsDir[localFilePath[a]],
                            by |-> (IF @ = Unset THEN {} ELSE @.by) \cup {a}]]
          /\ docs' = [docs EXCEPT ![a] = [status |-> "pending", result |-> Unset]]
          /\ stage' = [stage EXCEPT ![a] =
                         IF incoming[a].route = "scan" THEN "getUser" ELSE "analyze"]
          /\ UNCHANGED <<uploadsDir, answer>>
     ELSE /\ Catch500(a)
          /\ UNCHANGED <<storage, docs>>
  /\ UNCHANGED <<clock, incoming, localFilePath, fileName, image>>
  /\ UNCHANGED <<scanVars, legacyVars>>

(* brand.js lines 187-191: /api/scan reads the user document; for an
   unknown user it unlinks the file, which throws when the file is gone *)
GetUser(a) ==
  /\ stage[a] = "getUser"
  /\ IF incoming[a].userId \in Registered
     THEN /\ stage' = [stage EXCEPT ![a] = "analyze"]
          /\ UNCHANGED <<uploadsDir, answer>>
     ELSE IF exists(localFilePath[a])
     THEN /\ uploadsDir' = [uploadsDir EXCEPT ![localFilePath[a]] = Unset]
          /\ answer' = [answer EXCEPT ![a] = 404]
          /\ stage' = [stage EXCEPT ![a] = "done"]
     ELSE Catch500(a)
  /\ UNCHANGED <<clock, incoming, localFilePath, fileName, storage, docs, image>>
  /\ UNCHANGED <<scanVars, legacyVars>>

ENOENT == [k |-> "ENOENT"]

(* brandScanner.js line 80 (aiAnalyzer.js): fs.readFileSync(localFilePath);
   the analyzer works on the bytes it read, or ends in its catch *)
Analyze(a) ==
  /\ stage[a] = "analyze"
  /\ image' = [image EXCEPT ![a] =
                 IF exists(localFilePath[a]) THEN uploadsDir[localFilePath[a]] ELSE ENOENT]
  /\ stage' = [stage EXCEPT ![a] = "update"]
  /\ UNCHANGED <<clock, incoming, localFilePath, uploadsDir, fileName, storage, docs, answer>>
  /\ UNCHANGED <<scanVars, legacyVars>>

(* brand.js lines 96-117 and 204-220: the document is updated, the file is
   unlinked, the response is sent.  /api/scan-brand unlinks only a file
   that exists; /api/scan unlinks unconditionally and ends in its catch
   when the file is gone. *)
Finish(a) ==
  /\ stage[a] = "update"
  /\ docs' = [docs EXCEPT ![a] =
                [status |-> IF incoming[a].route = "brand" /\ image[a] = ENOENT
                            THEN "failed" ELSE "completed",
                 result |-> image[a]]]
  /\ IF incoming[a].route = "scan" /\ ~exists(localFilePath[a])
     THEN Catch500(a)
     ELSE /\ uploadsDir' = [uploadsDir EXCEPT ![localFilePath[a]] = Unset]
          /\ answer' = [answer EXCEPT ![a] = 200]
          /\ stage' = [stage EXCEPT ![a] = "done"]
  /\ UNCHANGED <<clock, incoming, localFilePath, fileName, storage, image>>
  /\ UNCHANGED <<scanVars, legacyVars>>

ConcNext ==
  \/ Tick
  \/ \E a \in Pair :
       \/ Stage(a)
       \/ Begin(a)
       \/ Uploaded(a)
       \/ GetUser(a)
       \/ Analyze(a)
       \/ Finish(a)

ConcSpec == Init /\ [][ConcNext]_vars

(* ------------------------------ claims -------------------------------- *)
(* the requests whose analyzeDrinkWithVertex call returned a value *)
Returned(r) == req[r].route = "brand" /\ analysis[r].k = "return"

(* the 200 responses of POST /api/scan-brand *)
BrandOk(r) == req[r].route = "brand" /\ http[r].k = "sent" /\ http[r].status = 200

(* the scan documents that hold a result *)
HasResult(r) == scans[r] # None /\ Get(scans[r], "result") # Null

TypeCorrect(key, v) ==
  CASE key \in {"keyIngredients", "warnings"} -> IsStringArray(v)
    [] key = "confidenceScore" -> v.k = "number"
    [] key = "error" -> v.k = "boolean"
    [] key = "message" -> v.k \in {"string", "null"}
    [] OTHER -> v.k = "string"

DefaultOf(key) ==
  CASE key = "keyIngredients" -> Sentinel
    [] key = "warnings" -> Arr(<<>>)
    [] key = "confidenceScore" -> Num(0)
    [] OTHER -> Str(<<>>)

FullyTyped(result) ==
  /\ result.k = "object"
  /\ \A key \in ResultKeys : key \in DOMAIN result.o /\ TypeCorrect(key, result.o[key])

InRange(v) == v.k = "number" /\ v.n >= 0 /\ v.n <= 100

NonEmptyArray(v) == v.k = "array" /\ Len(v.a) > 0

(* C1: every value analyzeDrinkWithVertex returns, on the success path and
   on every failure path, holds all eleven AnalysisResult fields, each with
   a value of its declared type. *)
C1_EveryFieldPresentAndTyped ==
  \A r \in Reqs : Returned(r) => FullyTyped(analysis[r].v)

(* C2: whatever the model answered, the confidenceScore in the result of
   analyzeDrinkWithVertex and in the aiResult of POST /api/scan-brand is a
   number between 0 and 100. *)
C2_ConfidenceInRange ==
  \A r \in Reqs :
    /\ Returned(r) => InRange(Get(analysis[r].v, "confidenceScore"))
    /\ BrandOk(r) => InRange(Get(Get(http[r].body, "aiResult"), "confidenceScore"))

(* C3: keyIngredients is never empty: not in a result of
   analyzeDrinkWithVertex, not in an aiResult POST /api/scan-brand returns,
   not in one it stores, the route's own fallback included. *)
C3_KeyIngredientsNeverEmpty ==
  \A r \in Reqs :
    /\ Returned(r) => NonEmptyArray(Get(analysis[r].v, "keyIngredients"))
    /\ BrandOk(r) => NonEmptyArray(Get(Get(http[r].body, "aiResult"), "keyIngredients"))
    /\ (req[r].route = "brand" /\ HasResult(r))
         => NonEmptyArray(Get(Get(scans[r], "result"), "keyIngredients"))

(* scenario A's shape: the payload serialized and wrapped in ```json fences,
   as the text of the first candidate's first part *)
Fenced(p) ==
  GenerateContentResult(Undef, Lit("STOP"),
    Obj([parts |-> Arr(<<TextPart(Str(<<Fence, JsonTag, NL, Val(p), NL, Fence>>))>>)]))

ValidPayloads == {p \in Payloads : SchemaIssues(p) = {}}

RoundTrips(p, result) ==
  /\ Get(result, "error") = Bool(FALSE)
  /\ Get(result, "message") = Null
  /\ \A key \in SchemaKeys :
       Get(result, key) = IF key \in DOMAIN p.o THEN p.o[key] ELSE (IF key = "warnings" THEN Arr(<<>>) ELSE Str(<<>>))

(* C4: a payload that satisfies the schema, serialized, fenced and fed
   through the normalizer, comes back with error=false, message=null, every
   supplied field unchanged and every omitted optional field at its default. *)
C4_RoundTrip ==
  \A r \in Reqs : \A p \in ValidPayloads :
    (BrandOk(r) /\ modelOut[r] = Resolve(Fenced(p)))
      => RoundTrips(p, Get(http[r].body, "aiResult"))

(* whether the response yielded a candidate object that passes the schema *)
Validated(r) ==
  /\ modelOut[r].k = "resolve"
  /\ Truthy(candidateObject(modelOut[r].v))
  /\ DrinkAnalysisSchema(candidateObject(modelOut[r].v)).success

NonEmptyString(v) == v.k = "string" /\ Len(v.s) > 0

(* C5: in every result of analyzeDrinkWithVertex, error=false holds exactly
   when a candidate object was obtained and passed schema validation, and
   then message is null and the result itself satisfies the schema; in
   every other case error=true and message is a non-empty string. *)
C5_ErrorIffNotValidated ==
  \A r \in Reqs :
    Returned(r) =>
      LET result == analysis[r].v
      IN  /\ (Get(result, "error") = Bool(FALSE)) <=> Validated(r)
          /\ Validated(r) => Get(result, "message") = Null /\ SchemaIssues(result) = {}
          /\ ~Validated(r) =>
               Get(result, "error") = Bool(TRUE) /\ NonEmptyString(Get(result, "message"))

(* C5 witness: a candidate was parsed from the text, its confidenceScore is
   out of range, and the result carries error=true *)
C5_Witness ==
  \E r \in Reqs :
    /\ Returned(r)
    /\ modelOut[r].k = "resolve"
    /\ Get(candidateObject(modelOut[r].v), "confidenceScore") = Num(101)
    /\ Get(analysis[r].v, "error") = Bool(TRUE)

(* the calls the outer catch of analyzeDrinkWithVertex ended: the file
   could not be read, or the model call was rejected *)
CaughtOutside(r) ==
  /\ req[r].route = "brand"
  /\ analysis[r] # None
  /\ modelOut[r].k # "resolve"

(* C6: analyzeDrinkWithVertex is total: it never hands an exception to its
   caller, and a result built by the outer catch has error=true and every
   field at its default. *)
C6_NeverThrows ==
  \A r \in Reqs :
    /\ req[r].route = "brand" => analysis[r].k # "throw"
    /\ CaughtOutside(r) =>
         /\ analysis[r].k = "return"
         /\ Get(analysis[r].v, "error") = Bool(TRUE)
         /\ \A key \in SchemaKeys : Get(analysis[r].v, key) = DefaultOf(key)

(* the diagnostics of a failed extraction or a failed parse *)
ParseOrExtractionDiagnostic(m) ==
  \/ m = Lit("No candidate text found in AI response")
  \/ m = Lit("AI parsing/validation failed")
  \/ NonEmptyString(m) /\ Head(m.s) = Chr("Malformed JSON returned by AI: ")

(* scenario B: the first candidate's only text part is a sentence *)
ProseResponses ==
  {GenerateContentResult(Undef, fr, c) :
     fr \in {Undef, Lit("STOP")},
     c \in {Obj([parts |-> Arr(<<TextPart(Str(<<Prose>>))>>)]), Arr(<<TextPart(Str(<<Prose>>))>>)}}

(* C7: scenario B yields error=true, a parse-failure or extraction-failure
   message, brandName "", the sentinel ingredient list and confidenceScore 0. *)
C7_ScenarioB ==
  \A r \in Reqs :
    (Returned(r) /\ modelOut[r].k = "resolve" /\ modelOut[r].v \in ProseResponses) =>
      /\ Get(analysis[r].v, "error") = Bool(TRUE)
      /\ ParseOrExtractionDiagnostic(Get(analysis[r].v, "message"))
      /\ Get(analysis[r].v, "brandName") = Str(<<>>)
      /\ Get(analysis[r].v, "keyIngredients") = Sentinel
      /\ Get(analysis[r].v, "confidenceScore") = Num(0)

(* the diagnostics a response gives rise to, in the order the code meets them *)
HasFeedback(response) ==
  LET feedback == Get(Get(response, "response"), "promptFeedback")
  IN  Truthy(Get(feedback, "blockReason")) \/ Truthy(Get(feedback, "safetyRatings"))

StoppedEarly(response) ==
  LET finishReason == Get(FirstCandidate(response), "finishReason")
  IN  Truthy(finishReason) /\ finishReason # Lit("STOP")

StartsWith(m, prefix) == NonEmptyString(m) /\ Head(m.s) = Chr(prefix)

FirstDiagnostic(response, m) ==
  IF HasFeedback(response)
  THEN m = Str(<<Chr("API feedback: "), Val(Get(Get(response, "response"), "promptFeedback"))>>)
  ELSE IF StoppedEarly(response)
  THEN m = Str(<<Chr("Generation stopped: ")>> \o Get(FirstCandidate(response), "finishReason").s)
  ELSE IF ~Truthy(extractModelText(response))
  THEN m = Lit("No candidate text found in AI response")
  ELSE IF parseText(response).err # Null
  THEN StartsWith(m, "Malformed JSON returned by AI: ")
  ELSE IF Truthy(candidateObject(response))
  THEN StartsWith(m, "Schema validation failed: ")
  ELSE m = Lit("AI parsing/validation failed")

(* C8: on the failure path the message is the first diagnostic recorded:
   prompt feedback, else a finish reason other than STOP, then the missing
   candidate text, then the parse error, then the schema failure, and the
   default only when there is none.  A blocked prompt without a parseable
   candidate (scenario C) reports the feedback. *)
C8_FirstDiagnosticWins ==
  \A r \in Reqs :
    (Returned(r) /\ modelOut[r].k = "resolve" /\ Get(analysis[r].v, "error") = Bool(TRUE))
      => FirstDiagnostic(modelOut[r].v, Get(analysis[r].v, "message"))

(* C8 witness: the prompt was blocked and the text is malformed JSON, so a
   parse error was recorded after the feedback, and the message is the
   feedback *)
C8_Witness ==
  \E r \in Reqs :
    /\ Returned(r)
    /\ modelOut[r].k = "resolve"
    /\ Truthy(Get(Get(Get(modelOut[r].v, "response"), "promptFeedback"), "blockReason"))
    /\ parseText(modelOut[r].v).err # Null
    /\ StartsWith(Get(analysis[r].v, "message"), "API feedback: ")

(* C9: the aiResult of every 200 response of POST /api/scan-brand holds all
   eleven fields, none undefined, and the result stored in the scan
   document is that same aiResult. *)
C9_AiResultComplete ==
  \A r \in Reqs :
    BrandOk(r) =>
      LET sent == Get(http[r].body, "aiResult")
      IN  /\ sent.k = "object"
          /\ \A key \in ResultKeys : key \in DOMAIN sent.o /\ sent.o[key] # Undef
          /\ HasResult(r) => Get(scans[r], "result") = sent

(* C9 witness: the analyzer returned a validated payload without
   manufacturer, the document was updated and the response sent *)
C9_Witness ==
  \E r \in Reqs :
    /\ BrandOk(r)
    /\ Returned(r)
    /\ "manufacturer" \notin DOMAIN analysis[r].v.o
    /\ HasResult(r)

(* whether a stored result signals an error *)
SignalsError(result) == Get(result, "error") = Bool(TRUE)

(* C10: every scan document has status pending, completed or failed;
   pending exactly when result is null, failed exactly when the stored
   result signals an error, completed exactly when it does not. *)
C10_StatusMatchesResult ==
  \A r \in Reqs :
    scans[r] # None =>
      LET status == Get(scans[r], "status")
          result == Get(scans[r], "result")
      IN  /\ status \in {Lit("pending"), Lit("completed"), Lit("failed")}
          /\ (status = Lit("pending")) <=> (result = Null)
          /\ (status = Lit("failed")) <=> (result # Null /\ SignalsError(result))
          /\ (status = Lit("completed")) <=> (result # Null /\ ~SignalsError(result))

(* whether the handler of request r has run the statement what *)
Has(r, what) == \E i \in DOMAIN steps[r] : steps[r][i] = what

Sent(r) == http[r].k = "sent"

Rejected4xx(r) ==
  /\ req[r].route \in {"brand", "scan"}
  /\ Sent(r) /\ http[r].status >= 400 /\ http[r].status <= 499

(* C11: when a scan request is answered with a 4xx (no userId, no image,
   or for /api/scan an unknown user), no upload to the bucket, no scan
   document and no model call has been made for it. *)
C11_RejectedBeforeExternalCalls ==
  \A r \in Reqs :
    Rejected4xx(r) =>
      /\ ~Has(r, "upload") /\ ~Has(r, "add") /\ ~Has(r, "model")
      /\ scans[r] = None

(* C12: when the response of a scan request is sent, the file staged for
   the request is no longer under uploads/, on every exit path. *)
C12_TempFileRemoved ==
  \A r \in Reqs :
    (req[r].route \in {"brand", "scan"} /\ Sent(r)) => stagedPath(r) \notin disk

(* the 200 body of both scan routes: {status, scanId, imageUrl, aiResult} *)
ScanOkBody(r) ==
  /\ http[r].status = 200
  /\ http[r].body.k = "object"
  /\ DOMAIN http[r].body.o = {"status", "scanId", "imageUrl", "aiResult"}
  /\ Get(http[r].body, "scanId") = scanId(r)
  /\ Get(http[r].body, "imageUrl") = imageUrl(r)
  /\ Get(http[r].body, "aiResult") = aiResult[r]

(* C13: in both scan routes a failed update of the scan document is
   swallowed: the response is the 200 body {status, scanId, imageUrl,
   aiResult} a successful update would have been followed by. *)
C13_UpdateFailureSwallowed ==
  \A r \in Reqs : (Sent(r) /\ Has(r, "update failed")) => ScanOkBody(r)

(* the handler of request r has run to its end, answered or not *)
Ended(r) == pc[r] \in {"done", "unanswered"}

(* a name that is missing, empty or whitespace-only *)
Blank(name) ==
  \/ name.k \in {"undefined", "null"}
  \/ name.k = "string" /\ trim(name.s) = <<>>

(* the user documents POST /api/profile has created *)
CreatedProfiles == users \ {Lit("u1")}

NameRequired(r) ==
  /\ Sent(r) /\ http[r].status = 400
  /\ http[r].body = Obj([error |-> Lit("Name is required")])
  /\ CreatedProfiles = {}

ProfileSaved(r) ==
  /\ Sent(r) /\ http[r].status = 200
  /\ http[r].body.k = "object"
  /\ DOMAIN http[r].body.o = {"status", "profileId", "name"}
  /\ Get(http[r].body, "name") = req[r].name
  /\ CreatedProfiles = {Get(http[r].body, "profileId")}

ProfileWriteFailed(r) ==
  /\ Sent(r) /\ http[r].status = 500
  /\ Has(r, "add failed")
  /\ http[r].body.k = "object" /\ "profileId" \notin DOMAIN http[r].body.o
  /\ CreatedProfiles = {}

(* C14: POST /api/profile answers a missing, empty or whitespace-only name
   with 400 {error: "Name is required"} and creates no document; any other
   name creates exactly one document and is answered {status, profileId,
   name} with that document's id, or 500 without profileId when the write
   fails. *)
C14_ProfileNameRequired ==
  \A r \in Reqs :
    (req[r].route = "profile" /\ Ended(r)) =>
      IF Blank(req[r].name) THEN NameRequired(r)
      ELSE IF req[r].name.k = "string" THEN ProfileSaved(r) \/ ProfileWriteFailed(r)
      ELSE NameRequired(r) \/ ProfileSaved(r) \/ ProfileWriteFailed(r)

(* how many responses the handler of request r has sent *)
ResponsesSent(r) == Cardinality({i \in DOMAIN steps[r] : steps[r][i] = "respond"})

AnsweredWithJson(r) == Sent(r) /\ http[r].body.k \in {"object", "array"}

(* C15: every request to the three routes, whatever its body, is
   eventually answered with one response that has a JSON body, given that
   every external call settles; and no handler answers twice. *)
C15_ExactlyOneJsonResponse ==
  /\ \A r \in Reqs : (pc[r] = "received") ~> AnsweredWithJson(r)
  /\ [](\A r \in Reqs : ResponsesSent(r) <= 1)

(* the steps the claim orders, as the handler of request r ran them *)
IsMilestone(e) ==
  e \in {"uploaded", "added", "model", "normalized", "update", "unlink", "respond"}

Milestones(r) == SelectSeq(steps[r], IsMilestone)

FullOrder == <<"uploaded", "added", "model", "normalized", "update", "unlink", "respond">>

OrderWithoutModel == <<"uploaded", "added", "normalized", "update", "unlink", "respond">>

(* fs.readFileSync failed: the analyzer's result comes from its catch *)
FileUnreadable(r) ==
  modelOut[r] = None /\ analysis[r] = analyzeDrinkWithVertex(FALSE, None)

(* C16, as stated: every run of POST /api/scan-brand that returns 200 has
   uploaded, created the pending document, invoked the model, normalized,
   attempted the update, removed the file and responded, in this order and
   each once. *)
C16_AllStepsInOrder ==
  \A r \in Reqs : BrandOk(r) => Milestones(r) = FullOrder

(* C16, amended: in every run of POST /api/scan-brand that returns 200 the
   steps are in the stated order, each once; the model is invoked once,
   after the document was created and before normalization, except when
   the staged file could not be read, where it is not invoked at all. *)
C16_StepsInOrder ==
  \A r \in Reqs :
    BrandOk(r) =>
      IF FileUnreadable(r) THEN Milestones(r) = OrderWithoutModel
      ELSE Milestones(r) = FullOrder

C16_Witness ==
  \E r \in Reqs :
    /\ BrandOk(r) /\ Has(r, "update failed")
    /\ modelOut[r] # None /\ modelOut[r].k = "reject"

(* the requests of POST /api/scan-brand whose model call returned a response *)
Answered(r) == req[r].route = "brand" /\ modelOut[r] # None /\ modelOut[r].k = "resolve"

(* the four places extractModelText looks at *)
PartsText(response) == Get(At(Get(Get(FirstCandidate(response), "content"), "parts"), 0), "text")

ContentText(response) == Get(At(Get(FirstCandidate(response), "content"), 0), "text")

FirstPart(response) == At(Get(Get(FirstCandidate(response), "content"), "parts"), 0)

NonEmpty(v) == Truthy(v)

Serialized(v) == Str(<<Val(v)>>)

PartIsObjectWithoutText(response) ==
  /\ FirstPart(response).k \in {"object", "array"}
  /\ ~NonEmpty(Get(FirstPart(response), "text"))

(* C17: extractModelText yields content.parts[0].text of the first
   candidate when it is non-empty, else content[0].text when non-empty,
   else the serialization of content.parts[0] when that part is an object
   without text, else the serialization of the first candidate; it yields
   nothing exactly when there is no first candidate. *)
C17_ExtractionPriority ==
  \A r \in Reqs :
    Answered(r) =>
      LET response == modelOut[r].v
          text == extractModelText(response)
      IN  /\ NonEmpty(PartsText(response)) => text = PartsText(response)
          /\ (~NonEmpty(PartsText(response)) /\ NonEmpty(ContentText(response)))
               => text = ContentText(response)
          /\ (/\ ~NonEmpty(PartsText(response)) /\ ~NonEmpty(ContentText(response))
              /\ PartIsObjectWithoutText(response))
               => text = Serialized(FirstPart(response))
          /\ (/\ ~NonEmpty(PartsText(response)) /\ ~NonEmpty(ContentText(response))
              /\ ~PartIsObjectWithoutText(response)
              /\ FirstCandidate(response) # Undef)
               => text = Serialized(FirstCandidate(response))
          /\ (text = Null) <=> (FirstCandidate(response) = Undef)

C17_Witness ==
  \E r \in Reqs :
    /\ Answered(r)
    /\ ~NonEmpty(PartsText(modelOut[r].v)) /\ PartIsObjectWithoutText(modelOut[r].v)
    /\ FirstPart(modelOut[r].v) = Obj(BaseMin)
    /\ analysis[r].k = "return"

(* the response with its feedback taken away: no promptFeedback, finish
   reason STOP, the same content *)
WithoutFeedback(response) ==
  GenerateContentResult(Undef, Lit("STOP"), Get(FirstCandidate(response), "content"))

(* C18: feedback does not cut the analysis short.  When the response
   carries promptFeedback with a block reason or safety ratings, or a finish
   reason other than STOP, and its candidate passes the schema, the result
   of analyzeDrinkWithVertex is the validated payload with error=false and
   message=null, the same as for the response without the feedback. *)
C18_FeedbackDoesNotShortCircuit ==
  \A r \in Reqs :
    (/\ Answered(r)
     /\ HasFeedback(modelOut[r].v) \/ StoppedEarly(modelOut[r].v)
     /\ Validated(r))
      => /\ analysis[r].k = "return"
         /\ Get(analysis[r].v, "error") = Bool(FALSE)
         /\ Get(analysis[r].v, "message") = Null
         /\ \A key \in SchemaKeys :
              Get(analysis[r].v, key) = Get(candidateObject(modelOut[r].v), key)
         /\ analysis[r] = analyzeDrinkWithVertex(TRUE, Resolve(WithoutFeedback(modelOut[r].v)))

C18_Witness ==
  \E r \in Reqs :
    /\ Answered(r)
    /\ HasFeedback(modelOut[r].v) /\ StoppedEarly(modelOut[r].v)
    /\ Validated(r)
    /\ Get(analysis[r].v, "brandName") = Lit("Fanta")
    /\ BrandOk(r)

LooksLikePayload(el) ==
  /\ TypeofObject(el) /\ el # Null
  /\ \/ Truthy(Get(el, "brandName"))
     \/ Truthy(Get(el, "productType"))
     \/ Truthy(Get(el, "keyIngredients"))

NonEmptyObject(v) == Truthy(v) /\ TypeofObject(v) /\ KeyCount(v) > 0

ContentOf(response) == Get(FirstCandidate(response), "content")

(* the third strategy as stated: the first element of the content array
   that has at least one of brandName, productType, keyIngredients *)
FirstLookAlike(response) ==
  LET content == ContentOf(response)
      hits == IF content.k = "array"
              THEN {i \in 1..Len(content.a) : LooksLikePayload(content.a[i])}
              ELSE {}
  IN  IF hits = {} THEN Null
      ELSE content.a[CHOOSE i \in hits : \A m \in hits : i <= m]

(* the fourth strategy as stated, "the first content part if it is a
   non-empty object", under each reading of "first content part":
   content.parts[0]; content[0].parts[0]; parts[0] of the first element of
   the content array that has parts *)
FirstContentParts(response) ==
  LET content == ContentOf(response)
      withParts == IF content.k = "array"
                   THEN {i \in 1..Len(content.a) : Get(content.a[i], "parts").k = "array"}
                   ELSE {}
  IN  {FirstPart(response), At(Get(At(content, 0), "parts"), 0)}
      \cup (IF withParts = {} THEN {}
            ELSE {At(Get(content.a[CHOOSE i \in withParts : \A m \in withParts : i <= m],
                         "parts"), 0)})

(* the candidate the stated order of strategies yields, for the reading
   part of "first content part" *)
StatedCandidate(response, part) ==
  IF Truthy(parseText(response).parsed) THEN parseText(response).parsed
  ELSE IF FirstLookAlike(response) # Null THEN FirstLookAlike(response)
  ELSE IF NonEmptyObject(part) THEN part
  ELSE Null

(* C19: the candidate is the one the strategies yield in their stated
   order (direct parse, embedded object, first look-alike element of the
   content array, first content part if a non-empty object), each tried
   only when the earlier ones yielded none; a candidate from the text is
   never replaced, and a parse exception leaves its diagnostic and lets the
   structural strategies run. *)
C19_StrategyOrder ==
  \A r \in Reqs :
    Answered(r) =>
      LET response == modelOut[r].v
      IN  /\ \E part \in FirstContentParts(response) :
               candidateObject(response) = StatedCandidate(response, part)
          /\ Truthy(parseText(response).parsed)
               => candidateObject(response) = parseText(response).parsed
          /\ parseText(response).err # Null
               => /\ analysis[r].k = "return"
                  /\ candidateObject(response)
                       = finalFallback(response, structuralFallback(response, Null))

(* the requests whose analysis ended on the failure path of the normalizer *)
FailurePath(r) == Answered(r) /\ ~Validated(r) /\ analysis[r].k = "return"

(* the best available candidate, {} when there is none *)
BestCandidate(r) == Or(candidateObject(modelOut[r].v), EmptyObj)

(* C20: on the failure path every field is decided on its own: a field
   whose value in the best candidate has the field's type is copied
   unchanged, a field that is absent or of another type gets its default
   ("" for strings, ["ingredient_unavailable"] for keyIngredients, [] for
   warnings, 0 for confidenceScore).  An empty keyIngredients list may be
   copied or replaced by the sentinel. *)
C20_FieldsDecidedIndependently ==
  \A r \in Reqs :
    FailurePath(r) =>
      \A key \in SchemaKeys :
        LET given == Get(BestCandidate(r), key)
            out == Get(analysis[r].v, key)
        IN  IF key = "keyIngredients" /\ given = Arr(<<>>) THEN out \in {given, Sentinel}
            ELSE IF TypeCorrect(key, given) THEN out = given
            ELSE out = DefaultOf(key)

Staged(a) == localFilePath[a] # Unset

(* C21: two scan requests served at the same time share no state: the
   file staged for one is never the file staged for the other, no request
   analyzes the other's image or finds its own file gone, and no object of
   the bucket is written by both or holds the image of a request that did
   not write it. *)
C21_NoSharedState ==
  \A a \in Pair : \A b \in Pair \ {a} :
    /\ (Staged(a) /\ Staged(b)) => localFilePath[a] # localFilePath[b]
    /\ image[a] \notin {ImageOf(b), ENOENT}
    /\ (fileName[a] # Unset /\ fileName[b] # Unset) => fileName[a] # fileName[b]
    /\ \A dest \in Destinations :
         storage[dest] # Unset => storage[dest].by \in {{a}, {b}}
    /\ (fileName[a] # Unset /\ storage[fileName[a]] # Unset)
         => storage[fileName[a]].holds = ImageOf(a)
    /\ docs[a] # Unset => docs[a].result \notin {ImageOf(b), ENOENT}

(* C22: once a scan route has answered a request for which it created a
   scan document, the document is no longer pending: it holds a result and
   its status is completed or failed, on every path. *)
C22_NotPendingAfterResponse ==
  \A r \in Reqs :
    (req[r].route \in {"brand", "scan"} /\ Sent(r) /\ scans[r] # None) =>
      /\ Get(scans[r], "status") \in {Lit("completed"), Lit("failed")}
      /\ Get(scans[r], "result") # Null

(* the profile a saveProfile call asks for: each list, or [] when omitted *)
Asked(call) ==
  [allergies |-> IF call.allergies = Unset THEN List(<<>>) ELSE call.allergies,
   preferences |-> IF call.preferences = Unset THEN List(<<>>) ELSE call.preferences]

NoUserId(call) == call.userId = Unset \/ call.userId.id = ""

(* C23: after any sequence of legacy calls, the last call has done what it
   should.  saveProfile with a userId has set that user's entry to the
   given lists ([] when omitted) and left every other user's entry as it
   was; saveProfile without a userId has answered 400 and left the map as
   it was; getProfile has left the map as it was and answered with the
   profile last saved for the user, or 404 when none was ever saved; no
   entry has been removed. *)
C23_LegacyProfileMap ==
  legacy # Unset =>
    /\ \A v \in LegacyIds \ {""} :
         Lookup(legacy.before, v) # Unset => Lookup(profiles, v) # Unset
    /\ IF legacy.op = "saveProfile" /\ NoUserId(legacy)
       THEN legacy.status = 400 /\ profiles = legacy.before
       ELSE IF legacy.op = "saveProfile"
       THEN /\ legacy.status = 200
            /\ Lookup(profiles, legacy.userId.id) = Asked(legacy)
            /\ \A v \in LegacyIds \ {"", legacy.userId.id} :
                 Lookup(profiles, v) = Lookup(legacy.before, v)
       ELSE /\ profiles = legacy.before
            /\ IF legacy.userId.id \in DOMAIN saved
               THEN legacy.status = 200 /\ legacy.body = saved[legacy.userId.id]
               ELSE legacy.status = 404

====
